---- MODULE Spec2Model ----
\* Model of ckanext/dalrrd_emc_dcpr/logic/action/emc.py: the action handlers
\* list_featured_datasets, request_dataset_maintenance and
\* request_dataset_publication, with the CKAN host (authorization, package_show,
\* activity_create, emc_user_patch, follow_dataset, job queue) as environment.
EXTENDS Integers, Sequences, FiniteSets, TLC

\* ---------------------------------------------------------------- bounds
MaxCalls == 2
MaxAllCalls == 1
MaxLimit == 2
MaxOffset == 1

DefaultLimit == 10
DefaultOffset == 0

\* ---------------------------------------------------------------- universe
Users == {"u1", "u2"}
PkgInputs == {"ds1", "missing"}

REQUEST_MAINTENANCE == "maintenance_requested"
REQUEST_PUBLICATION == "publication_requested"

None == <<>>
Some(x) == <<x>>
Min(a, b) == IF a < b THEN a ELSE b
Max(a, b) == IF a > b THEN a ELSE b
Range(q) == {q[i] : i \in 1..Len(q)}

\* ---------------------------------------------------------------- database
\* package table rows, in the order the database returns them
Pkg(id, state, private) == [id |-> id, name |-> id, state |-> state, private |-> private]

PackageTableA ==
  << Pkg("ds1", "active", FALSE), Pkg("ds2", "active", FALSE),
     Pkg("ds6", "active", TRUE),  Pkg("ds3", "active", FALSE),
     Pkg("ds9", "deleted", FALSE), Pkg("ds7", "active", TRUE),
     Pkg("ds4", "active", FALSE), Pkg("ds10", "active", FALSE),
     Pkg("ds8", "active", TRUE),  Pkg("ds5", "active", FALSE),
     Pkg("ds11", "active", FALSE), Pkg("ds12", "draft", TRUE) >>

Extra(pid, featured) == [package_id |-> pid, featured |-> featured]

\* package extra rows; ds10 is featured "True" (not the literal "true"),
\* ds11 has no extra row at all
PackageExtraTableA ==
  << Extra("ds1", "true"), Extra("ds2", "true"), Extra("ds3", "true"),
     Extra("ds4", "true"), Extra("ds5", "true"), Extra("ds6", "true"),
     Extra("ds7", "true"), Extra("ds8", "true"), Extra("ds9", "true"),
     Extra("ds10", "True"), Extra("ds12", "true") >>

PackageTableB ==
  << Pkg("ds6", "active", TRUE), Pkg("ds1", "active", FALSE),
     Pkg("ds2", "active", FALSE), Pkg("ds3", "deleted", TRUE) >>

\* ds1 and ds2 have several extra rows: the join yields one row per pair,
\* eleven of them public, active and featured
PackageExtraTableB ==
  << Extra("ds1", "true"), Extra("ds6", "false"), Extra("ds1", "true"),
     Extra("ds3", "true"), Extra("ds2", "false"), Extra("ds1", "true"),
     Extra("ds2", "true"), Extra("ds2", "true"), Extra("ds1", "true"),
     Extra("ds1", "true"), Extra("ds2", "true"), Extra("ds2", "true"),
     Extra("ds1", "true"), Extra("ds2", "true") >>

DatabaseA == [package_table |-> PackageTableA, package_extra_table |-> PackageExtraTableA]
DatabaseB == [package_table |-> PackageTableB, package_extra_table |-> PackageExtraTableB]

\* ---------------------------------------------------------------- schema
V_activity_type_exists == "activity_type_exists"
V_object_id_validator == "object_id_validator"
V_package_id_exists == "package_id_exists"

Schema(object_id, activity_type) ==
  [ id |-> <<"ignore">>,
    timestamp |-> <<"ignore">>,
    user_id |-> <<"not_missing", "not_empty", "unicode_safe", "convert_user_name_or_id_to_id">>,
    object_id |-> object_id,
    activity_type |-> activity_type,
    data |-> <<"ignore_empty", "ignore_missing">> ]

\* what default_create_activity_schema() may return, depending on the host
\* what default_create_activity_schema() returns: CKAN's own, and two hosts
\* in which a named validator is missing or sits elsewhere in its list
SchemaCkan ==
  Schema(<<"not_missing", "not_empty", "unicode_safe", V_object_id_validator>>,
         <<"not_missing", "not_empty", "unicode_safe", V_activity_type_exists>>)
SchemaNoType ==
  Schema(<<V_object_id_validator, "not_missing">>,
         <<"not_missing", "not_empty">>)
SchemaNoObject ==
  Schema(<<"not_missing", "unicode_safe">>,
         <<V_activity_type_exists, "not_missing", "unicode_safe">>)

\* the installations the calls run against
Deployments ==
  { [schema |-> SchemaCkan, db |-> DatabaseA],
    [schema |-> SchemaNoType, db |-> DatabaseB],
    [schema |-> SchemaNoObject, db |-> DatabaseA] }

VARIABLES activities, jobs, notif, follows, hostSchema, db, calls, last

vars == <<activities, jobs, notif, follows, hostSchema, db, calls, last>>


\* ---------------------------------------------------------------- host
\* outcomes of host calls; "AlreadyFollowing" and "ValidationOther" are both
\* raised as toolkit.ValidationError
IsValidationError(o) == o \in {"ValidationError", "AlreadyFollowing", "ValidationOther"}

\* the exception class the caller sees for a failed host call
ErrorClass(o) == IF IsValidationError(o) THEN "ValidationError" ELSE o

\* the host's nondeterministic behaviour during one call; a call stops at the
\* first exception it does not catch, so the choices behind it are never observed
AllOk ==
  [ auth |-> TRUE, show |-> "ok", create |-> "ok", patch |-> "ok",
    follow |-> "ok", enqueue |-> "ok" ]

HostChoices ==
  { [AllOk EXCEPT !.auth = FALSE],
    [AllOk EXCEPT !.show = "NotAuthorized"],
    [AllOk EXCEPT !.create = "ValidationError"],
    [AllOk EXCEPT !.patch = "ValidationError"],
    [AllOk EXCEPT !.patch = "NotAuthorized"],
    [AllOk EXCEPT !.follow = "NotAuthorized"] } \cup
  { [AllOk EXCEPT !.follow = f, !.enqueue = e] :
      f \in {"ok", "ValidationOther"}, e \in {"ok", "Error"} }

NoOutcomes ==
  [ auth |-> "skipped", show |-> "skipped", create |-> "skipped",
    patch |-> "skipped", follow |-> "skipped", enqueue |-> "skipped" ]

DatasetIds(s) == {s.db.package_table[i].id : i \in 1..Len(s.db.package_table)}

\* toolkit.check_access: raises NotAuthorized or returns
check_access(name, h) == IF h.auth THEN "ok" ELSE "NotAuthorized"

\* toolkit.get_action("package_show")
package_show(s, dataset_id, h) ==
  IF dataset_id \notin DatasetIds(s) THEN "NotFound" ELSE h.show

\* validation of the activity's data_dict against the schema handed to
\* activity_create: the built-in validators reject custom activity types,
\* package_id_exists rejects unknown dataset ids
BuiltinActivityTypes == {"new package", "changed package", "deleted package"}

Validates(s, schema, data) ==
  /\ V_activity_type_exists \in Range(schema.activity_type)
        => data.activity_type \in BuiltinActivityTypes
  /\ V_object_id_validator \in Range(schema.object_id)
        => data.activity_type \in BuiltinActivityTypes
  /\ V_package_id_exists \in Range(schema.object_id)
        => data.object_id \in DatasetIds(s)

activity_create(s, schema, data, h) ==
  IF ~Validates(s, schema, data) THEN "ValidationError" ELSE h.create

\* toolkit.get_action("follow_dataset") called without a context: the host
\* takes the follower from the request global
follow_dataset(s, g, dataset_id, h) ==
  IF <<g, dataset_id>> \in s.follows THEN "AlreadyFollowing" ELSE h.follow

\* ---------------------------------------------------------------- list_featured_datasets
DataDicts ==
  { None } \cup
  { Some([include_private |-> ip, limit |-> l, offset |-> o]) :
      ip \in {None, Some(TRUE), Some(FALSE)},
      l \in {None} \cup {Some(n) : n \in 0..MaxLimit},
      o \in {None} \cup {Some(n) : n \in 0..MaxOffset} }

EmptyDict == [include_private |-> None, limit |-> None, offset |-> None]

\* dict.get(key, default)
Get(opt, default) == IF opt = None THEN default ELSE opt[1]

\* package_table.join(package_extra_table): one row per (package, extra) pair
\* with extra.package_id = package.id, package-major
RECURSIVE JoinFrom(_, _, _)
JoinFrom(pt, et, i) ==
  IF i > Len(pt) THEN <<>>
  ELSE LET OnClause(e) == e.package_id = pt[i].id
           es == SelectSeq(et, OnClause)
       IN [j \in 1..Len(es) |-> [p |-> pt[i], e |-> es[j]]] \o JoinFrom(pt, et, i + 1)

Join(d) == JoinFrom(d.package_table, d.package_extra_table, 1)

\* mutant: the WHERE clause forgets the state column
FeaturedWhere_AnyState(row, include_private) ==
  /\ row.e.featured = "true"
  /\ row.p.private = include_private

FeaturedWhere(row, include_private) ==
  /\ row.e.featured = "true"
  /\ row.p.state = "active"
  /\ row.p.private = include_private

FeaturedQuery(d, include_private, limit, offset) ==
  LET where(row) == FeaturedWhere(row, include_private)
      rows == SelectSeq(Join(d), where)
      page == SubSeq(rows, offset + 1, Min(Len(rows), offset + limit))
  IN [i \in 1..Len(page) |-> [name |-> page[i].p.name]]

\* returns the call's result, return value and the data_dict afterwards
list_featured_datasets(s, data_dict, h) ==
  IF check_access("emc_authorize_list_featured_datasets", h) # "ok"
  THEN [result |-> "NotAuthorized", ret |-> <<>>, data_dict |-> data_dict]
  ELSE
    LET data_ == IF data_dict # None THEN data_dict[1] ELSE EmptyDict
        include_private == Get(data_.include_private, FALSE)
        limit == Get(data_.limit, DefaultLimit)
        offset == Get(data_.offset, DefaultOffset)
    IN [ result |-> "ok",
         ret |-> FeaturedQuery(s.db, include_private, limit, offset),
         data_dict |-> data_dict ]

\* ---------------------------------------------------------------- _create_dataset_management_activity
\* the for/break loop: index of the first validator with the given __name__, 0 if none
RECURSIVE FindNamed(_, _, _)
FindNamed(validators, name, index) ==
  IF index > Len(validators) THEN 0
  ELSE IF validators[index] = name THEN index
  ELSE FindNamed(validators, name, index + 1)

\* if to_remove: list.remove(to_remove)
RemoveNamed(validators, name) ==
  LET to_remove == FindNamed(validators, name, 1)
  IN IF to_remove # 0
     THEN SubSeq(validators, 1, to_remove - 1) \o SubSeq(validators, to_remove + 1, Len(validators))
     ELSE validators

\* mutant: the object_id validator is left in place
PatchSchema_KeepObjectValidator(activity_schema) ==
  LET s1 == [activity_schema EXCEPT !.activity_type = RemoveNamed(@, V_activity_type_exists)]
  IN [s1 EXCEPT !.object_id = Append(@, V_package_id_exists)]

PatchSchema(activity_schema) ==
  LET s1 == [activity_schema EXCEPT !.activity_type = RemoveNamed(@, V_activity_type_exists)]
      s2 == [s1 EXCEPT !.object_id = RemoveNamed(@, V_object_id_validator)]
  IN [s2 EXCEPT !.object_id = Append(@, V_package_id_exists)]

\* default_create_activity_schema() builds a new dict on every call, so the
\* patch never reaches the host's default
default_create_activity_schema(s) == s.hostSchema

\* a call in progress: the state so far, the host outcomes seen, the exception
\* raised ("ok" while none), the host calls made, the schema handed to
\* activity_create and the activity it returned
Raise(r, o) == [r EXCEPT !.result = ErrorClass(o)]

Called(r, fn) == [r EXCEPT !.trace = Append(@, fn)]

_create_dataset_management_activity(r, g, dataset_id, activity_type, h) ==
  LET activity_schema == PatchSchema(default_create_activity_schema(r.s))
      show == package_show(r.s, dataset_id, h)
      r1 == [Called(r, "package_show") EXCEPT !.out.show = show]
      data == [ user_id |-> g,
                object_id |-> dataset_id,
                activity_type |-> activity_type,
                data |-> [package |-> dataset_id] ]
      create == activity_create(r.s, activity_schema, data, h)
      r2 == [Called(r1, "activity_create") EXCEPT !.out.create = create,
                                                   !.schema = Some(activity_schema)]
      activity == [ id |-> Len(r.s.activities) + 1,
                    user_id |-> data.user_id,
                    object_id |-> data.object_id,
                    activity_type |-> data.activity_type,
                    data |-> data.data ]
  IN IF show # "ok" THEN Raise(r1, show)
     ELSE IF create # "ok" THEN Raise(r2, create)
     ELSE [r2 EXCEPT !.s.activities = Append(@, activity),
                     !.activity = Some(activity)]

\* ---------------------------------------------------------------- mutants of _ensure_user_is_notifiable
\* mutant: a bare except around follow_dataset
_ensure_user_is_notifiable_BareExcept(r, g, user_id, dataset_id, h) ==
  LET r1 == [Called(r, "emc_user_patch") EXCEPT !.out.patch = h.patch]
      r2 == [r1 EXCEPT !.s.notif[user_id] = TRUE]
      follow == follow_dataset(r2.s, g, dataset_id, h)
      r3 == [Called(r2, "follow_dataset") EXCEPT !.out.follow = follow]
  IN IF h.patch # "ok" THEN Raise(r1, h.patch)
     ELSE IF follow = "ok" THEN [r3 EXCEPT !.s.follows = @ \cup {<<g, dataset_id>>}]
     ELSE r3

\* mutant: no try/except around follow_dataset
_ensure_user_is_notifiable_NoExcept(r, g, user_id, dataset_id, h) ==
  LET r1 == [Called(r, "emc_user_patch") EXCEPT !.out.patch = h.patch]
      r2 == [r1 EXCEPT !.s.notif[user_id] = TRUE]
      follow == follow_dataset(r2.s, g, dataset_id, h)
      r3 == [Called(r2, "follow_dataset") EXCEPT !.out.follow = follow]
  IN IF h.patch # "ok" THEN Raise(r1, h.patch)
     ELSE IF follow = "ok" THEN [r3 EXCEPT !.s.follows = @ \cup {<<g, dataset_id>>}]
     ELSE Raise(r3, follow)

\* ---------------------------------------------------------------- _ensure_user_is_notifiable
_ensure_user_is_notifiable(r, g, user_id, dataset_id, h) ==
  LET r1 == [Called(r, "emc_user_patch") EXCEPT !.out.patch = h.patch]
      r2 == [r1 EXCEPT !.s.notif[user_id] = TRUE]
      follow == follow_dataset(r2.s, g, dataset_id, h)
      r3 == [Called(r2, "follow_dataset") EXCEPT !.out.follow = follow]
  IN IF h.patch # "ok" THEN Raise(r1, h.patch)
     ELSE IF follow = "ok" THEN [r3 EXCEPT !.s.follows = @ \cup {<<g, dataset_id>>}]
     ELSE IF IsValidationError(follow) THEN r3
     ELSE Raise(r3, follow)

\* ---------------------------------------------------------------- request handlers
\* toolkit.enqueue_job(jobs.notify_org_admins_of_dataset_management_request, args=...)
enqueue_job(r, args, h) ==
  LET r1 == [Called(r, "enqueue_job") EXCEPT !.out.enqueue = h.enqueue]
  IN IF h.enqueue # "ok" THEN Raise(r1, h.enqueue)
     ELSE [r1 EXCEPT !.s.jobs = Append(@, args)]

Start(s) ==
  [ s |-> s, out |-> NoOutcomes, result |-> "ok", trace |-> <<>>,
    schema |-> None, activity |-> None ]

\* mutant: the job is enqueued before the user is made notifiable
request_dataset_maintenance_EnqueueEarly(s, user, g, pkg_id, h) ==
  LET auth == check_access("emc_request_dataset_maintenance", h)
      r0 == [Called(Start(s), "emc_request_dataset_maintenance") EXCEPT !.out.auth = auth]
      r1 == _create_dataset_management_activity(r0, g, pkg_id, REQUEST_MAINTENANCE, h)
      r2 == enqueue_job(r1, <<r1.activity[1].id>>, h)
  IN IF auth # "ok" THEN Raise(r0, auth)
     ELSE IF r1.result # "ok" THEN r1
     ELSE IF r2.result # "ok" THEN r2
     ELSE _ensure_user_is_notifiable(r2, g, user, pkg_id, h)

request_dataset_maintenance(s, user, g, pkg_id, h) ==
  LET auth == check_access("emc_request_dataset_maintenance", h)
      r0 == [Called(Start(s), "emc_request_dataset_maintenance") EXCEPT !.out.auth = auth]
      r1 == _create_dataset_management_activity(r0, g, pkg_id, REQUEST_MAINTENANCE, h)
      r2 == _ensure_user_is_notifiable(r1, g, user, pkg_id, h)
  IN IF auth # "ok" THEN Raise(r0, auth)
     ELSE IF r1.result # "ok" THEN r1
     ELSE IF r2.result # "ok" THEN r2
     ELSE enqueue_job(r2, <<r1.activity[1].id>>, h)

\* mutant: the publication handler forgets its authorization check
request_dataset_publication_NoCheck(s, user, g, pkg_id, h) ==
  LET r0 == Start(s)
      r1 == _create_dataset_management_activity(r0, g, pkg_id, REQUEST_PUBLICATION, h)
      r2 == _ensure_user_is_notifiable(r1, g, user, pkg_id, h)
  IN IF r1.result # "ok" THEN r1
     ELSE IF r2.result # "ok" THEN r2
     ELSE enqueue_job(r2, <<r1.activity[1].id>>, h)

\* mutant: the publication handler forgets to make the user notifiable
request_dataset_publication_NoNotify(s, user, g, pkg_id, h) ==
  LET auth == check_access("emc_request_dataset_publication", h)
      r0 == [Called(Start(s), "emc_request_dataset_publication") EXCEPT !.out.auth = auth]
      r1 == _create_dataset_management_activity(r0, g, pkg_id, REQUEST_PUBLICATION, h)
  IN IF auth # "ok" THEN Raise(r0, auth)
     ELSE IF r1.result # "ok" THEN r1
     ELSE enqueue_job(r1, <<r1.activity[1].id>>, h)

request_dataset_publication(s, user, g, pkg_id, h) ==
  LET auth == check_access("emc_request_dataset_publication", h)
      r0 == [Called(Start(s), "emc_request_dataset_publication") EXCEPT !.out.auth = auth]
      r1 == _create_dataset_management_activity(r0, g, pkg_id, REQUEST_PUBLICATION, h)
      r2 == _ensure_user_is_notifiable(r1, g, user, pkg_id, h)
  IN IF auth # "ok" THEN Raise(r0, auth)
     ELSE IF r1.result # "ok" THEN r1
     ELSE IF r2.result # "ok" THEN r2
     ELSE enqueue_job(r2, <<r1.activity[1].id>>, h)

\* ---------------------------------------------------------------- state machine
State ==
  [ activities |-> activities, jobs |-> jobs, notif |-> notif,
    follows |-> follows, hostSchema |-> hostSchema, db |-> db ]

NoCall ==
  [ op |-> "none", user |-> "u1", g |-> "u1", pkg_id |-> "ds1",
    authorized |-> FALSE, data_dict |-> None, data_dict_after |-> None,
    out |-> NoOutcomes, result |-> "ok", ret |-> <<>>, trace |-> <<>>,
    schema |-> None, activity |-> None ]

\* a call returned without any host call failing (a duplicate follow aside)
Clean(c) ==
  /\ c.result = "ok"
  /\ c.out.follow \in {"ok", "AlreadyFollowing"}

\* the preceding call, kept when it was a clean request_dataset_maintenance
Summary(c) ==
  IF c.op = "request_dataset_maintenance" /\ Clean(c)
  THEN Some([user |-> c.user, g |-> c.g, pkg_id |-> c.pkg_id, activity |-> c.activity[1]])
  ELSE None

Init ==
  /\ activities = <<>>
  /\ jobs = <<>>
  /\ notif = [u \in Users |-> FALSE]
  /\ follows = {}
  /\ \E dep \in Deployments : hostSchema = dep.schema /\ db = dep.db
  /\ calls = 0
  /\ last = [ call |-> NoCall, pre |-> State, prev |-> Summary(NoCall),
              twin |-> Start(State) ]

Commit(r) ==
  /\ activities' = r.s.activities
  /\ jobs' = r.s.jobs
  /\ notif' = r.s.notif
  /\ follows' = r.s.follows
  /\ hostSchema' = r.s.hostSchema
  /\ db' = r.s.db

Record(op, user, g, pkg_id, h, r, twin) ==
  last' = [ call |-> [ op |-> op, user |-> user, g |-> g, pkg_id |-> pkg_id,
                       authorized |-> h.auth, data_dict |-> None,
                       data_dict_after |-> None, out |-> r.out,
                       result |-> r.result, ret |-> <<>>, trace |-> r.trace,
                       schema |-> r.schema, activity |-> r.activity ],
            pre |-> State,
            prev |-> Summary(last.call),
            twin |-> twin ]

RequestMaintenance ==
  /\ calls < MaxCalls
  /\ \E user \in Users, g \in Users, pkg_id \in PkgInputs, h \in HostChoices :
       LET r == request_dataset_maintenance(State, user, g, pkg_id, h)
           twin == request_dataset_publication(State, user, g, pkg_id, h)
       IN /\ Commit(r)
          /\ Record("request_dataset_maintenance", user, g, pkg_id, h, r, twin)
  /\ calls' = calls + 1

RequestPublication ==
  /\ calls < MaxCalls
  /\ \E user \in Users, g \in Users, pkg_id \in PkgInputs, h \in HostChoices :
       LET r == request_dataset_publication(State, user, g, pkg_id, h)
           twin == request_dataset_maintenance(State, user, g, pkg_id, h)
       IN /\ Commit(r)
          /\ Record("request_dataset_publication", user, g, pkg_id, h, r, twin)
  /\ calls' = calls + 1

ListFeatured ==
  /\ calls < MaxCalls
  /\ \E data_dict \in DataDicts, auth \in BOOLEAN :
       LET h == [auth |-> auth]
           r == list_featured_datasets(State, data_dict, h)
       IN last' = [ call |-> [ NoCall EXCEPT !.op = "list_featured_datasets",
                                                                                          !.authorized = auth,
                                             !.data_dict = data_dict,
                                             !.data_dict_after = r.data_dict,
                                             !.out.auth = r.result,
                                             !.result = r.result,
                                             !.ret = r.ret,
                                             !.trace = <<"emc_authorize_list_featured_datasets">> ],
                    pre |-> State,
                    prev |-> Summary(last.call),
                    twin |-> Start(State) ]
  /\ calls' = calls + 1
  /\ UNCHANGED <<activities, jobs, notif, follows, hostSchema, db>>

\* the two request handlers
Next == RequestMaintenance \/ RequestPublication

Spec == Init /\ [][Next]_vars

\* all three protected actions, under a call bound of their own
NextAll ==
  /\ calls < MaxAllCalls
  /\ (RequestMaintenance \/ RequestPublication \/ ListFeatured)

SpecAll == Init /\ [][NextAll]_vars

\* ---------------------------------------------------------------- properties
RequestOps == {"request_dataset_maintenance", "request_dataset_publication"}

IsRequest(c) == c.op \in RequestOps

HostStateUnchanged ==
  /\ activities = last.pre.activities
  /\ jobs = last.pre.jobs
  /\ notif = last.pre.notif
  /\ follows = last.pre.follows

\* every host call the call made went through
NoHostFailure(c) ==
  /\ c.out.show = "ok"
  /\ c.out.create = "ok"
  /\ c.out.patch = "ok"
  /\ c.out.follow = "ok"
  /\ c.out.enqueue = "ok"

\* C1: an authorized request_dataset_maintenance for a valid dataset id in which
\* no host step fails adds exactly one activity, of type REQUEST_MAINTENANCE and
\* with object id pkg_id, leaves the requesting user's notification flag true
\* and the user following the dataset, and enqueues exactly one job whose
\* single argument is the id of that activity.
C1_MaintenanceContract ==
  LET c == last.call IN
  (/\ c.op = "request_dataset_maintenance"
   /\ c.authorized
   /\ c.pkg_id \in DatasetIds(last.pre)
   /\ NoHostFailure(c))
  => /\ Len(activities) = Len(last.pre.activities) + 1
     /\ SubSeq(activities, 1, Len(last.pre.activities)) = last.pre.activities
     /\ activities[Len(activities)].activity_type = REQUEST_MAINTENANCE
     /\ activities[Len(activities)].object_id = c.pkg_id
     /\ notif[c.user]
     /\ <<c.user, c.pkg_id>> \in follows
     /\ jobs = Append(last.pre.jobs, <<activities[Len(activities)].id>>)

\* C2: when the caller fails the authorization check of list_featured_datasets,
\* request_dataset_maintenance or request_dataset_publication, the call fails
\* with NotAuthorized, makes no further host call, and creates no activity,
\* changes no preference flag, adds no follow relation and enqueues no job.
C2_UnauthorizedNoEffect ==
  LET c == last.call IN
  (c.op # "none" /\ ~c.authorized)
  => /\ c.result = "NotAuthorized"
     /\ Len(c.trace) = 1
     /\ c.ret = <<>>
     /\ HostStateUnchanged

C2_Witness ==
  /\ IsRequest(last.call)
  /\ ~last.call.authorized
  /\ last.call.result = "NotAuthorized"
  /\ last.call.pkg_id \in DatasetIds(State)

\* the steps of a request, in the order the handlers run them
Steps == <<"auth", "show", "create", "patch", "follow", "enqueue">>

\* a step failed and the handler did not catch the failure
Uncaught(c, i) ==
  /\ c.out[Steps[i]] \notin {"ok", "skipped"}
  /\ ~(Steps[i] = "follow" /\ IsValidationError(c.out.follow))

\* C3: in both request handlers a step failure that is not swallowed aborts
\* the remaining steps and surfaces the host error: no job is enqueued by the
\* call (in particular for a dataset id that does not exist), and what the
\* earlier steps did (the created activity, the flag, the follow) remains.
C3_FailureAborts ==
  LET c == last.call IN
  IsRequest(c) =>
    /\ \A i \in 1..Len(Steps) :
         Uncaught(c, i) =>
           /\ c.result = ErrorClass(c.out[Steps[i]])
           /\ \A j \in (i + 1)..Len(Steps) : c.out[Steps[j]] = "skipped"
           /\ jobs = last.pre.jobs
    /\ (c.result # "ok") <=> (\E i \in 1..Len(Steps) : Uncaught(c, i))
    /\ (c.authorized /\ c.pkg_id \notin DatasetIds(last.pre))
         => /\ c.result = "NotFound"
            /\ jobs = last.pre.jobs
            /\ activities = last.pre.activities
    /\ (c.result # "ok" /\ c.out.create = "ok")
         => /\ c.activity # None
            /\ activities = Append(last.pre.activities, c.activity[1])
    /\ (c.result # "ok" /\ c.out.patch = "ok") => notif[c.user]
    /\ (c.result # "ok" /\ c.out.follow = "ok") => <<c.g, c.pkg_id>> \in follows

C3_Witness ==
  /\ IsRequest(last.call)
  /\ last.call.out.follow = "NotAuthorized"
  /\ last.call.result = "NotAuthorized"
  /\ Len(activities) = Len(last.pre.activities) + 1
  /\ jobs = last.pre.jobs
  /\ ~last.pre.notif[last.call.user]

\* C4: a second request_dataset_maintenance by the same user for the same
\* dataset, right after a first one, does not raise although the host rejects
\* the duplicate follow; it creates a second activity, distinct from the first,
\* enqueues a second job carrying that activity's id, and leaves the follow
\* relation and the notification flags as the first call left them.
SecondCall ==
  LET c == last.call IN
  /\ c.op = "request_dataset_maintenance"
  /\ last.prev # None
  /\ last.prev[1].user = c.user
  /\ last.prev[1].g = c.g
  /\ last.prev[1].pkg_id = c.pkg_id
  /\ c.out.auth = "ok"
  /\ c.out.show = "ok"
  /\ c.out.create = "ok"
  /\ c.out.patch = "ok"
  /\ c.out.enqueue # "Error"

C4_SecondCallIdempotent ==
  LET c == last.call IN
  SecondCall =>
    /\ c.out.follow = "AlreadyFollowing"
    /\ c.result = "ok"
    /\ c.activity # None
    /\ c.activity[1].id # last.prev[1].activity.id
    /\ c.activity[1].activity_type = REQUEST_MAINTENANCE
    /\ last.prev[1].activity \in Range(last.pre.activities)
    /\ activities = Append(last.pre.activities, c.activity[1])
    /\ jobs = Append(last.pre.jobs, <<c.activity[1].id>>)
    /\ <<last.prev[1].activity.id>> \in Range(last.pre.jobs)
    /\ follows = last.pre.follows
    /\ notif = last.pre.notif

C4_Witness ==
  /\ SecondCall
  /\ last.call.result = "ok"
  /\ last.call.out.follow = "AlreadyFollowing"
  /\ Len(jobs) = 2

\* C5: a ValidationError raised by a host action during a request is swallowed
\* only when the follow step reports the user as already following; raised for
\* any other reason (by the follow step, the preference update or the activity
\* creation) it reaches the caller and no job is enqueued.
C5_OnlyDuplicateFollowSwallowed ==
  LET c == last.call IN
  (/\ IsRequest(c)
   /\ \/ c.out.create = "ValidationError"
      \/ c.out.patch = "ValidationError"
      \/ c.out.follow = "ValidationOther")
  => /\ c.result = "ValidationError"
     /\ jobs = last.pre.jobs

\* C6 ----------------------------------------------------------------
\* the (package, extra) index pairs the query's WHERE clause selects
MatchPairs(d, include_private) ==
  { pr \in (1..Len(d.package_table)) \X (1..Len(d.package_extra_table)) :
      /\ d.package_extra_table[pr[2]].package_id = d.package_table[pr[1]].id
      /\ d.package_extra_table[pr[2]].featured = "true"
      /\ d.package_table[pr[1]].state = "active"
      /\ d.package_table[pr[1]].private = include_private }

Before(a, b) == a[1] < b[1] \/ (a[1] = b[1] /\ a[2] < b[2])

\* position of a selected pair among the selected pairs, in table order
Rank(M, pr) == Cardinality({q \in M : Before(q, pr)}) + 1

EffectiveArgs(data_dict) ==
  IF data_dict = None
  THEN [include_private |-> FALSE, limit |-> DefaultLimit, offset |-> DefaultOffset]
  ELSE [ include_private |->
           IF data_dict[1].include_private = None THEN FALSE ELSE data_dict[1].include_private[1],
         limit |-> IF data_dict[1].limit = None THEN DefaultLimit ELSE data_dict[1].limit[1],
         offset |-> IF data_dict[1].offset = None THEN DefaultOffset ELSE data_dict[1].offset[1] ]

\* C6: for an authorized caller and every (include_private, limit, offset),
\* defaulting to false, 10 and 0, list_featured_datasets returns only names of
\* datasets whose "featured" extra is "true", whose state is "active" and whose
\* private flag equals include_private; it returns the rows at positions
\* offset .. offset+limit-1 of the matching rows in the underlying order, so at
\* most limit rows; and it changes neither the stored data nor the data_dict.
C6_ListFeatured ==
  LET c == last.call
      a == EffectiveArgs(c.data_dict)
      M == MatchPairs(db, a.include_private)
  IN (c.op = "list_featured_datasets" /\ c.authorized) =>
       /\ c.result = "ok"
       /\ Len(c.ret) <= a.limit
       /\ Len(c.ret) = Max(0, Min(a.limit, Cardinality(M) - a.offset))
       /\ \A i \in 1..Len(c.ret) :
            \E pr \in M :
              /\ Rank(M, pr) = a.offset + i
              /\ c.ret[i] = [name |-> db.package_table[pr[1]].name]
       /\ HostStateUnchanged
       /\ db = last.pre.db
       /\ c.data_dict_after = c.data_dict

\* 5 matching public and 3 private featured datasets, limit 2, offset 0
C6_Witness ==
  /\ last.call.op = "list_featured_datasets"
  /\ last.call.authorized
  /\ last.call.data_dict =
       Some([include_private |-> Some(FALSE), limit |-> Some(2), offset |-> Some(0)])
  /\ Cardinality(MatchPairs(db, FALSE)) = 5
  /\ Cardinality(MatchPairs(db, TRUE)) = 3
  /\ last.call.ret = <<[name |-> "ds1"], [name |-> "ds2"]>>

\* C7 ----------------------------------------------------------------
OtherType(t) ==
  IF t = REQUEST_MAINTENANCE THEN REQUEST_PUBLICATION
  ELSE IF t = REQUEST_PUBLICATION THEN REQUEST_MAINTENANCE
  ELSE t

\* C7: request_dataset_maintenance and request_dataset_publication, started
\* from the same state with the same caller, pkg_id and host outcomes, make the
\* same host calls after their own authorization check and end in states that
\* are equal except for the type of the created activity, REQUEST_MAINTENANCE
\* in one and REQUEST_PUBLICATION in the other.
C7_SameUpToType ==
  LET c == last.call
      t == last.twin
      mine == IF c.op = "request_dataset_maintenance"
              THEN REQUEST_MAINTENANCE ELSE REQUEST_PUBLICATION
  IN IsRequest(c) =>
       /\ c.trace[1] = IF c.op = "request_dataset_maintenance"
                       THEN "emc_request_dataset_maintenance"
                       ELSE "emc_request_dataset_publication"
       /\ t.trace[1] # c.trace[1]
       /\ t.trace[1] \in {"emc_request_dataset_maintenance", "emc_request_dataset_publication"}
       /\ Tail(c.trace) = Tail(t.trace)
       /\ c.out = t.out
       /\ c.result = t.result
       /\ c.schema = t.schema
       /\ jobs = t.s.jobs
       /\ notif = t.s.notif
       /\ follows = t.s.follows
       /\ hostSchema = t.s.hostSchema
       /\ db = t.s.db
       /\ (c.activity = None) <=> (t.activity = None)
       /\ c.activity = None => activities = t.s.activities
       /\ c.activity # None =>
            /\ c.activity[1].activity_type = mine
            /\ t.activity[1] = [c.activity[1] EXCEPT !.activity_type = OtherType(mine)]
            /\ activities = Append(last.pre.activities, c.activity[1])
            /\ t.s.activities = Append(last.pre.activities, t.activity[1])

C7_Witness ==
  /\ last.call.op = "request_dataset_publication"
  /\ last.call.result = "ok"
  /\ last.call.activity # None
  /\ last.twin.activity # None
  /\ last.twin.activity[1].activity_type = REQUEST_MAINTENANCE
  /\ Len(jobs) = 2

\* C8 ----------------------------------------------------------------
NotNamed(name, validators) ==
  LET keep(v) == v # name IN SelectSeq(validators, keep)

ExpectedSchema(default) ==
  [ id |-> default.id,
    timestamp |-> default.timestamp,
    user_id |-> default.user_id,
    object_id |-> NotNamed(V_object_id_validator, default.object_id) \o <<V_package_id_exists>>,
    activity_type |-> NotNamed(V_activity_type_exists, default.activity_type),
    data |-> default.data ]

\* C8: every call of _create_dataset_management_activity validates the new
\* activity against the host's default activity schema with activity_type_exists
\* removed from activity_type, object_id_validator removed from object_id and
\* package_id_exists appended to object_id, all other validators kept in order;
\* an absent validator is skipped without error; and the host's default schema
\* is the same after the call as before it.
C8_PatchedSchema ==
  LET c == last.call IN
  IsRequest(c) =>
    /\ hostSchema = last.pre.hostSchema
    /\ c.out.create # "skipped" <=> c.schema # None
    /\ (c.authorized /\ c.out.show = "ok") => c.schema # None
    /\ c.schema # None => c.schema[1] = ExpectedSchema(last.pre.hostSchema)

C8_Witness ==
  /\ IsRequest(last.call)
  /\ last.call.result = "ok"
  /\ V_activity_type_exists \notin Range(hostSchema.activity_type)
  /\ V_object_id_validator \in Range(hostSchema.object_id)
  /\ last.call.schema = Some(ExpectedSchema(hostSchema))
  /\ Len(activities) = 2

\* C9 ----------------------------------------------------------------
ActivityIds == {activities[i].id : i \in 1..Len(activities)}

FullTrace(c) ==
  << IF c.op = "request_dataset_maintenance"
     THEN "emc_request_dataset_maintenance" ELSE "emc_request_dataset_publication",
     "package_show", "activity_create", "emc_user_patch", "follow_dataset", "enqueue_job" >>

C10_OneRequestingUser ==
  LET c == last.call IN
  (IsRequest(c) /\ c.result = "ok") =>
    /\ c.activity[1].user_id = c.user
    /\ notif[c.user]
    /\ follows \ last.pre.follows \subseteq {<<c.user, c.pkg_id>>}
    /\ c.out.follow = "ok" => <<c.user, c.pkg_id>> \in follows

====
